---- MODULE Spec2Model ----
(***************************************************************************)
(* Model of the playlist writer of the m3u8 library (writer.go): the media *)
(* playlist with its segment list, sequence numbering, target duration,    *)
(* sliding window and version negotiation, and the master playlist with    *)
(* its variants.                                                           *)
(*                                                                         *)
(* Segments are Go pointers kept in a container/list: the list is a        *)
(* sequence of addresses (p.Segments) into a store of segment objects      *)
(* (p.heap), so that one object held twice by the list is one object.      *)
(* Durations are float64 seconds in the source; here they are integers in  *)
(* units of half a second, so that Ceil has fractional and negative cases. *)
(* Optional (pointer) fields are sequences: <<>> is nil, <<v>> is set.     *)
(***************************************************************************)
EXTENDS Integers, Sequences, FiniteSets, TLC

VARIABLES
    kind,          \* which constructor built the playlist: "media" or "master"
    budget,        \* the number of calls a run makes at most, those of Encode aside
    p,             \* the MediaPlaylist
    m,             \* the MasterPlaylist
    ret,           \* what the last call returned: [err, buf], buf the text of Encode
    ncalls,        \* history: the number of calls made, those of Encode aside
    maxAssigned,   \* history: largest SeqId an append has assigned, -1 if none
    maxDur,        \* history: <<>> or <<d>>, d the largest duration appended
    removedClosed, \* history: a Remove has succeeded while the playlist was closed
    reappended,    \* history: AppendSegment was given an object the list already held
    calls          \* history: [start |-> the version negotiation started from,
                   \*           names |-> the setters called since, in call order]

vars ==
    <<kind, budget, p, m, ret, ncalls, maxAssigned, maxDur, removedClosed, reappended,
      calls>>

----------------------------------------------------------------------------
(* Bounds of the model *)

MaxLen == 3          \* segments held by the list
MaxWin == 2          \* window sizes 0..MaxWin
MaxOps == 5          \* calls made on a playlist, those of Encode aside
MaxOpsAll == 4       \* the same, where every call of the interface is enabled
MaxOpsEnc == 5       \* the same, where the calls that show in the encoded text are
MaxDrained == 2      \* media sequence number an append-only run starts from
MaxSetVer == 6       \* largest version SetVersion is given
MaxVariants == 2     \* variants of the master playlist
MaxCalls == 3        \* length of the call history of SpecNeg

Addrs == 1 .. MaxLen

(* Inputs *)
Durations == {-3, 0, 3, 4}       \* -1.5s, 0s, 1.5s, 2s
OneDuration == {3}
URIs == {"a.ts"}
Titles == {""}

Nil == "nil"
ErrEmpty == "playlist is empty"
ErrPlaylistFull == "playlist is full"

Max(a, b) == IF a < b THEN b ELSE a

(* math.Ceil on a duration in half seconds; the result is in half seconds *)
Ceil(h) == 2 * ((h + 1) \div 2)

----------------------------------------------------------------------------
(* The data model *)

minver == 3

(* new(MediaSegment): the zero value *)
NewMediaSegment ==
    [SeqId |-> 0, URI |-> "", Duration |-> 0, Title |-> "",
     Key |-> <<>>, Map |-> <<>>, Limit |-> 0, Offset |-> 0,
     SCTE |-> <<>>, Dateranges |-> <<>>, Discontinuity |-> FALSE,
     ProgramDateTime |-> 0, Custom |-> {}]

NewMediaPlaylist(w) ==
    [ver |-> minver, Segments |-> <<>>, heap |-> [a \in Addrs |-> NewMediaSegment],
     winsize |-> w, SeqNo |-> 0, TargetDuration |-> 0, Closed |-> FALSE,
     durationAsInt |-> FALSE, Iframe |-> FALSE, Custom |-> {},
     MediaType |-> 0, StartTime |-> 0, StartTimePrecise |-> FALSE,
     DiscontinuitySeq |-> 0, WV |-> <<>>, Args |-> ""]

NewMasterPlaylist ==
    [ver |-> minver, Variants |-> <<>>, independentSegments |-> FALSE, Custom |-> {},
     Args |-> ""]

(* the objects the list holds *)
Held(q) == {q.Segments[i] : i \in 1 .. Len(q.Segments)}

(* the segments of the list, dereferenced, front first *)
SegList(q) == [i \in 1 .. Len(q.Segments) |-> q.heap[q.Segments[i]]]

(* p.Segments.Back().Value *)
last(q) == q.Segments[Len(q.Segments)]

(* the address new(MediaSegment) returns: one the list does not hold *)
NewAddr(q) == CHOOSE a \in Addrs \ Held(q) : \A b \in Addrs \ Held(q) : a <= b

----------------------------------------------------------------------------
(* Operations of the media playlist.  Each takes the playlist q and gives  *)
(* [p |-> the playlist after the call, err |-> the error returned].        *)

None == "none"       \* the call returns nothing

(* version without the comparison *)
version_Overwrite(ver, newver) == newver

(* Set version of the playlist accordingly with section 7 *)
version(ver, newver) == IF ver < newver THEN newver ELSE ver

(* Remove with the emptiness test after the bookkeeping *)
Remove_CountsEmpty(q) ==
    LET q1 == IF ~q.Closed THEN [q EXCEPT !.SeqNo = @ + 1] ELSE q
    IN IF Len(q.Segments) = 0
       THEN [p |-> q1, err |-> ErrEmpty]
       ELSE LET front == Head(q.Segments)
                rest == Tail(q.Segments)
                h == IF \E i \in 1 .. Len(rest) : rest[i] = front
                     THEN q.heap
                     ELSE [q.heap EXCEPT ![front] = NewMediaSegment]
            IN [p |-> [q1 EXCEPT !.Segments = rest, !.heap = h], err |-> Nil]

(* Remove that never moves the media sequence number *)
Remove_KeepsSeqNo(q) ==
    IF Len(q.Segments) = 0
    THEN [p |-> q, err |-> ErrEmpty]
    ELSE LET front == Head(q.Segments)
             rest == Tail(q.Segments)
             h == IF \E i \in 1 .. Len(rest) : rest[i] = front
                  THEN q.heap
                  ELSE [q.heap EXCEPT ![front] = NewMediaSegment]
         IN [p |-> [q EXCEPT !.Segments = rest, !.heap = h], err |-> Nil]

(* Remove that moves the media sequence number of a closed playlist too *)
Remove_IgnoresClosed(q) ==
    IF Len(q.Segments) = 0
    THEN [p |-> q, err |-> ErrEmpty]
    ELSE LET front == Head(q.Segments)
             rest == Tail(q.Segments)
             h == IF \E i \in 1 .. Len(rest) : rest[i] = front
                  THEN q.heap
                  ELSE [q.heap EXCEPT ![front] = NewMediaSegment]
         IN [p |-> [q EXCEPT !.Segments = rest, !.heap = h, !.SeqNo = @ + 1],
             err |-> Nil]

Remove(q) ==
    IF Len(q.Segments) = 0
    THEN [p |-> q, err |-> ErrEmpty]
    ELSE LET front == Head(q.Segments)
             rest == Tail(q.Segments)
             \* an object the list no longer holds is garbage
             h == IF \E i \in 1 .. Len(rest) : rest[i] = front
                  THEN q.heap
                  ELSE [q.heap EXCEPT ![front] = NewMediaSegment]
             r == [q EXCEPT !.Segments = rest, !.heap = h]
         IN [p |-> IF ~r.Closed THEN [r EXCEPT !.SeqNo = @ + 1] ELSE r,
             err |-> Nil]

(* AppendSegment that copies the SeqId of the tail *)
AppendSegment_NoIncrement(q, a) ==
    LET h1 == [q.heap EXCEPT ![a].SeqId = q.SeqNo]
        h2 == IF Len(q.Segments) > 0
              THEN [h1 EXCEPT ![a].SeqId = h1[last(q)].SeqId]
              ELSE h1
        td == IF q.TargetDuration < h2[a].Duration
              THEN Ceil(h2[a].Duration)
              ELSE q.TargetDuration
    IN [p |-> [q EXCEPT !.heap = h2, !.Segments = Append(@, a), !.TargetDuration = td],
        err |-> Nil]

(* AppendSegment that numbers every segment from the media sequence number *)
AppendSegment_FromSeqNo(q, a) ==
    LET h1 == [q.heap EXCEPT ![a].SeqId = q.SeqNo + Len(q.Segments)]
        td == IF q.TargetDuration < h1[a].Duration
              THEN Ceil(h1[a].Duration)
              ELSE q.TargetDuration
    IN [p |-> [q EXCEPT !.heap = h1, !.Segments = Append(@, a), !.TargetDuration = td],
        err |-> Nil]

(* AppendSegment that keeps the duration as it is, without math.Ceil *)
AppendSegment_NoCeil(q, a) ==
    LET h1 == [q.heap EXCEPT ![a].SeqId = q.SeqNo]
        h2 == IF Len(q.Segments) > 0
              THEN [h1 EXCEPT ![a].SeqId = h1[last(q)].SeqId + 1]
              ELSE h1
        td == IF q.TargetDuration < h2[a].Duration
              THEN h2[a].Duration
              ELSE q.TargetDuration
    IN [p |-> [q EXCEPT !.heap = h2, !.Segments = Append(@, a), !.TargetDuration = td],
        err |-> Nil]

(* AppendSegment that refuses a segment at or above the window size *)
AppendSegment_Full(q, a) ==
    IF Len(q.Segments) >= q.winsize
    THEN [p |-> q, err |-> ErrPlaylistFull]
    ELSE LET h1 == [q.heap EXCEPT ![a].SeqId = q.SeqNo]
             h2 == IF Len(q.Segments) > 0
                   THEN [h1 EXCEPT ![a].SeqId = h1[last(q)].SeqId + 1]
                   ELSE h1
             td == IF q.TargetDuration < h2[a].Duration
                   THEN Ceil(h2[a].Duration)
                   ELSE q.TargetDuration
         IN [p |-> [q EXCEPT !.heap = h2, !.Segments = Append(@, a),
                             !.TargetDuration = td],
             err |-> Nil]

(* seg is the object at address a of q.heap *)
AppendSegment(q, a) ==
    LET h1 == [q.heap EXCEPT ![a].SeqId = q.SeqNo]
        h2 == IF Len(q.Segments) > 0
              THEN [h1 EXCEPT ![a].SeqId = h1[last(q)].SeqId + 1]
              ELSE h1
        td == IF q.TargetDuration < h2[a].Duration
              THEN Ceil(h2[a].Duration)
              ELSE q.TargetDuration
    IN [p |-> [q EXCEPT !.heap = h2, !.Segments = Append(@, a), !.TargetDuration = td],
        err |-> Nil]

(* the caller's (or Append's) new segment object, stored at a fresh address *)
Alloc(q, seg) == [q EXCEPT !.heap[NewAddr(q)] = seg]

MediaAppend(q, uri, duration, title) ==
    LET seg == [NewMediaSegment EXCEPT !.URI = uri, !.Duration = duration, !.Title = title]
    IN AppendSegment(Alloc(q, seg), NewAddr(q))

(* Slide that removes only above the window size *)
Slide_StrictlyAbove(q, uri, duration, title) ==
    LET q1 == IF ~q.Closed /\ Len(q.Segments) > q.winsize THEN Remove(q).p ELSE q
    IN [p |-> MediaAppend(q1, uri, duration, title).p, err |-> None]

(* Slide that appends and never removes *)
Slide_NeverRemoves(q, uri, duration, title) ==
    [p |-> MediaAppend(q, uri, duration, title).p, err |-> None]

Slide(q, uri, duration, title) ==
    LET q1 == IF ~q.Closed /\ Len(q.Segments) >= q.winsize THEN Remove(q).p ELSE q
    IN [p |-> MediaAppend(q1, uri, duration, title).p, err |-> None]

Close(q) == [p |-> [q EXCEPT !.Closed = TRUE], err |-> None]

SetWinSize(q, w) == [p |-> [q EXCEPT !.winsize = w], err |-> None]

(* the map m with tag stored under its name *)
MapPut(c, tag) == {e \in c : e.name # tag.name} \cup {tag}

(* DurationAsInt that takes the version back when told no *)
DurationAsInt_Resets(q, yes) ==
    LET v == IF yes THEN version(q.ver, 3) ELSE minver
    IN [p |-> [q EXCEPT !.ver = v, !.durationAsInt = yes], err |-> None]

DurationAsInt(q, yes) ==
    LET v == IF yes THEN version(q.ver, 3) ELSE q.ver
    IN [p |-> [q EXCEPT !.ver = v, !.durationAsInt = yes], err |-> None]

SetIframeOnly(q) ==
    [p |-> [q EXCEPT !.ver = version(q.ver, 4), !.Iframe = TRUE], err |-> None]

(* SetKey that looks at the key-format alone *)
SetKey_FormatOnly(q, method, uri, iv, keyformat, keyformatversions) ==
    IF Len(q.Segments) = 0
    THEN [p |-> q, err |-> ErrEmpty]
    ELSE LET v == IF keyformat # "" THEN version(q.ver, 5) ELSE q.ver
             key == [Method |-> method, URI |-> uri, IV |-> iv,
                     Keyformat |-> keyformat, Keyformatversions |-> keyformatversions]
         IN [p |-> [q EXCEPT !.ver = v, !.heap[last(q)].Key = <<key>>], err |-> Nil]

SetKey(q, method, uri, iv, keyformat, keyformatversions) ==
    IF Len(q.Segments) = 0
    THEN [p |-> q, err |-> ErrEmpty]
    ELSE LET v == IF keyformat # "" \/ keyformatversions # ""
                  THEN version(q.ver, 5)
                  ELSE q.ver
             key == [Method |-> method, URI |-> uri, IV |-> iv,
                     Keyformat |-> keyformat, Keyformatversions |-> keyformatversions]
         IN [p |-> [q EXCEPT !.ver = v, !.heap[last(q)].Key = <<key>>], err |-> Nil]

(* SetMap that negotiates the version before it looks at the list *)
SetMap_NegotiatesFirst(q, uri, limit, offset) ==
    IF Len(q.Segments) = 0
    THEN [p |-> [q EXCEPT !.ver = version(q.ver, 5)], err |-> ErrEmpty]
    ELSE [p |-> [q EXCEPT !.ver = version(q.ver, 5),
                          !.heap[last(q)].Map =
                              <<[URI |-> uri, Limit |-> limit, Offset |-> offset]>>],
          err |-> Nil]

SetMap(q, uri, limit, offset) ==
    IF Len(q.Segments) = 0
    THEN [p |-> q, err |-> ErrEmpty]
    ELSE [p |-> [q EXCEPT !.ver = version(q.ver, 5),
                          !.heap[last(q)].Map =
                              <<[URI |-> uri, Limit |-> limit, Offset |-> offset]>>],
          err |-> Nil]

SetRange(q, limit, offset) ==
    IF Len(q.Segments) = 0
    THEN [p |-> q, err |-> ErrEmpty]
    ELSE [p |-> [q EXCEPT !.ver = version(q.ver, 4),
                          !.heap[last(q)].Limit = limit,
                          !.heap[last(q)].Offset = offset],
          err |-> Nil]

SetSCTE35(q, scte35) ==
    IF Len(q.Segments) = 0
    THEN [p |-> q, err |-> ErrEmpty]
    ELSE [p |-> [q EXCEPT !.heap[last(q)].SCTE = <<scte35>>], err |-> Nil]

(* the SCTE syntaxes and cue types *)
SCTE35_67_2014 == 0
SCTE35_OATCLS == 1
SCTE35Cue_Start == 0
SCTE35Cue_Mid == 1
SCTE35Cue_End == 2

(* &SCTE{...}: the fields not named are zero *)
NewSCTE == [Syntax |-> SCTE35_67_2014, CueType |-> SCTE35Cue_Start, Cue |-> "",
            ID |-> "", Time |-> 0, Elapsed |-> 0]

SetSCTE(q, cue, id, time) ==
    SetSCTE35(q, [NewSCTE EXCEPT !.Syntax = SCTE35_67_2014, !.Cue = cue, !.ID = id,
                                 !.Time = time])

SetDateranges(q, dateranges) ==
    IF Len(q.Segments) = 0
    THEN [p |-> q, err |-> ErrEmpty]
    ELSE [p |-> [q EXCEPT !.heap[last(q)].Dateranges = dateranges], err |-> Nil]

(* SetDiscontinuity that marks the front segment *)
SetDiscontinuity_OnFront(q) ==
    IF Len(q.Segments) = 0
    THEN [p |-> q, err |-> ErrEmpty]
    ELSE [p |-> [q EXCEPT !.heap[q.Segments[1]].Discontinuity = TRUE], err |-> Nil]

SetDiscontinuity(q) ==
    IF Len(q.Segments) = 0
    THEN [p |-> q, err |-> ErrEmpty]
    ELSE [p |-> [q EXCEPT !.heap[last(q)].Discontinuity = TRUE], err |-> Nil]

SetProgramDateTime(q, value) ==
    IF Len(q.Segments) = 0
    THEN [p |-> q, err |-> ErrEmpty]
    ELSE [p |-> [q EXCEPT !.heap[last(q)].ProgramDateTime = value], err |-> Nil]

SetCustomTag(q, tag) == [p |-> [q EXCEPT !.Custom = MapPut(@, tag)], err |-> None]

SetCustomSegmentTag(q, tag) ==
    IF Len(q.Segments) = 0
    THEN [p |-> q, err |-> ErrEmpty]
    ELSE [p |-> [q EXCEPT !.heap[last(q)].Custom = MapPut(@, tag)], err |-> Nil]

SetVersion(q, ver) == [p |-> [q EXCEPT !.ver = ver], err |-> None]

----------------------------------------------------------------------------
(* Operations of the master playlist: each gives the playlist after it *)

MasterAppend(q, uri, chunklist, params) ==
    LET v == [URI |-> uri, Chunklist |-> chunklist, VariantParams |-> params]
        q1 == [q EXCEPT !.Variants = Append(@, v)]
    IN IF Len(v.VariantParams.Alternatives) > 0
       THEN [q1 EXCEPT !.ver = version(q1.ver, 4)]
       ELSE q1

MasterSetVersion(q, ver) == [q EXCEPT !.ver = ver]

MasterSetIndependentSegments(q, b) == [q EXCEPT !.independentSegments = b]

MasterSetCustomTag(q, tag) == [q EXCEPT !.Custom = MapPut(@, tag)]

----------------------------------------------------------------------------
(* Encode.  The buffer is the sequence of the lines written, a line being  *)
(* its tag and the text after the tag (the bytes are tag, text, "\n"); a   *)
(* line that is not a tag of the format (a URI, a custom tag) has the tag  *)
(* "".  A range over a Go map visits the entries in an order the language  *)
(* leaves open, so Encode gives the set of the buffers the call can return.*)

Line(tag, text) == [tag |-> tag, text |-> text]

(* strconv.FormatUint(v, 10) and strconv.FormatInt(v, 10) *)
FormatUint(v) == ToString(v)
FormatInt(v) == ToString(v)

strver(ver) == FormatUint(ver)

(* strconv.FormatFloat(f, 'f', 3, _) of a duration of h half seconds *)
FormatFloat3(h) ==
    LET abs == IF h < 0 THEN -h ELSE h
    IN (IF h < 0 THEN "-" ELSE "") \o ToString(abs \div 2)
       \o (IF abs % 2 = 0 THEN ".000" ELSE ".500")

(* strconv.FormatFloat(f, 'f', -1, 64) of a whole number of seconds: SCTE  *)
(* times, start offsets and daterange durations are whole seconds here     *)
FormatFloat(s) == ToString(s)

(* t.Format(DATETIME) of the instant t seconds after the zero time, t < 10 *)
FormatTime(t) == "0001-01-01T00:00:0" \o ToString(t) \o "Z"

(* the media types *)
EVENT == 1
VOD == 2

(* the orders a range over the map c can visit its entries in *)
Orders(c) ==
    {o \in [1 .. Cardinality(c) -> c] : \A i, j \in 1 .. Cardinality(c) : i # j => o[i] # o[j]}

(* the texts written after one another *)
RECURSIVE Concat(_)
Concat(texts) == IF texts = <<>> THEN "" ELSE Head(texts) \o Concat(Tail(texts))

(* the lines of the i-th entry on of a visit o of a map of custom tags; a  *)
(* tag whose Encode gives nil (text Nil) writes nothing                    *)
RECURSIVE CustomFrom(_, _)
CustomFrom(o, i) ==
    IF i > Len(o)
    THEN <<>>
    ELSE (IF o[i].text # Nil THEN <<Line("", o[i].text)>> ELSE <<>>) \o CustomFrom(o, i + 1)

(* the custom tags of the map c, one line each, in every order *)
CustomLines(c) == {CustomFrom(o, 1) : o \in Orders(c)}

(* key.Equal(other) and m.Equal(other), other not nil *)
KeyEqual(key, other) == key = other
MapEqual(mp, other) == mp = other

(* one line of the Widevine block: written when the field is not zero *)
WVUint(tag, v) == IF v # 0 THEN <<Line(tag, FormatUint(v))>> ELSE <<>>
WVString(tag, v) == IF v # "" THEN <<Line(tag, v)>> ELSE <<>>

(* the Widevine tags of the media playlist *)
EncodeWV(q) ==
    IF q.WV = <<>>
    THEN <<>>
    ELSE LET wv == q.WV[1]
         IN WVUint("#WV-AUDIO-CHANNELS ", wv.AudioChannels)
            \o WVUint("#WV-AUDIO-FORMAT ", wv.AudioFormat)
            \o WVUint("#WV-AUDIO-PROFILE-IDC ", wv.AudioProfileIDC)
            \o WVUint("#WV-AUDIO-SAMPLE-SIZE ", wv.AudioSampleSize)
            \o WVUint("#WV-AUDIO-SAMPLING-FREQUENCY ", wv.AudioSamplingFrequency)
            \o WVString("#WV-CYPHER-VERSION ", wv.CypherVersion)
            \o WVString("#WV-ECM ", wv.ECM)
            \o WVUint("#WV-VIDEO-FORMAT ", wv.VideoFormat)
            \o WVUint("#WV-VIDEO-FRAME-RATE ", wv.VideoFrameRate)
            \o WVUint("#WV-VIDEO-LEVEL-IDC", wv.VideoLevelIDC)
            \o WVUint("#WV-VIDEO-PROFILE-IDC ", wv.VideoProfileIDC)
            \o WVString("#WV-VIDEO-RESOLUTION ", wv.VideoResolution)
            \o WVString("#WV-VIDEO-SAR ", wv.VideoSAR)

(* the lines of Encode before the segments; custom is the lines of the     *)
(* custom tags of the playlist                                             *)
EncodeHeader(q, custom) ==
    <<Line("#EXTM3U", ""), Line("#EXT-X-VERSION:", strver(q.ver))>>
    \o custom
    \o (IF q.MediaType > 0
        THEN IF q.MediaType = EVENT
             THEN <<Line("#EXT-X-PLAYLIST-TYPE:", "EVENT"),
                    Line("#EXT-X-ALLOW-CACHE:", "NO")>>
             ELSE IF q.MediaType = VOD
             THEN <<Line("#EXT-X-PLAYLIST-TYPE:", "VOD")>>
             \* no case of the switch: the tag is written without a line end,
             \* and the media sequence tag follows on the same line
             ELSE <<>>
        ELSE <<>>)
    \o <<Line(IF q.MediaType > 0 /\ q.MediaType # EVENT /\ q.MediaType # VOD
              THEN "#EXT-X-PLAYLIST-TYPE:#EXT-X-MEDIA-SEQUENCE:"
              ELSE "#EXT-X-MEDIA-SEQUENCE:",
              FormatUint(q.SeqNo)),
         Line("#EXT-X-TARGETDURATION:", FormatInt(Ceil(q.TargetDuration) \div 2))>>
    \o (IF q.StartTime > 0
        THEN <<Line("#EXT-X-START:",
                    "TIME-OFFSET=" \o FormatFloat(q.StartTime)
                    \o (IF q.StartTimePrecise THEN ",PRECISE=YES" ELSE ""))>>
        ELSE <<>>)
    \o (IF q.DiscontinuitySeq # 0
        THEN <<Line("#EXT-X-DISCONTINUITY-SEQUENCE:", FormatUint(q.DiscontinuitySeq))>>
        ELSE <<>>)
    \o (IF q.Iframe THEN <<Line("#EXT-X-I-FRAMES-ONLY", "")>> ELSE <<>>)
    \o EncodeWV(q)

(* the ad-cue tags of a segment *)
EncodeSCTE(seg) ==
    IF seg.SCTE = <<>>
    THEN <<>>
    ELSE LET c == seg.SCTE[1]
         IN IF c.Syntax = SCTE35_67_2014
            THEN <<Line("#EXT-SCTE35:",
                        "CUE=\"" \o c.Cue \o "\""
                        \o (IF c.ID # "" THEN ",ID=\"" \o c.ID \o "\"" ELSE "")
                        \o (IF c.Time # 0 THEN ",TIME=" \o FormatFloat(c.Time) ELSE ""))>>
            ELSE IF c.Syntax = SCTE35_OATCLS
            THEN IF c.CueType = SCTE35Cue_Start
                 THEN <<Line("#EXT-OATCLS-SCTE35:", c.Cue),
                        Line("#EXT-X-CUE-OUT:", FormatFloat(c.Time))>>
                 ELSE IF c.CueType = SCTE35Cue_Mid
                 THEN <<Line("#EXT-X-CUE-OUT-CONT:",
                             "ElapsedTime=" \o FormatFloat(c.Elapsed)
                             \o ",Duration=" \o FormatFloat(c.Time)
                             \o ",SCTE35=" \o c.Cue)>>
                 ELSE IF c.CueType = SCTE35Cue_End
                 THEN <<Line("#EXT-X-CUE-IN", "")>>
                 ELSE <<>>
            ELSE <<>>

(* a quoted attribute of a pointer field: written when the field is set *)
Quoted(attr, v) == IF v # <<>> THEN attr \o v[1] \o "\"" ELSE ""

(* the X- attributes of a date range, in every order *)
EncodeX(c) ==
    {Concat([i \in 1 .. Cardinality(c) |->
                ",X-" \o o[i].name \o "=\"" \o o[i].text \o "\""]) : o \in Orders(c)}

(* the tag of one date range *)
EncodeDaterange(daterange) ==
    {<<Line("#EXT-X-DATERANGE:",
            "ID=\"" \o daterange.ID \o "\""
            \o Quoted(",CLASS=\"", daterange.Class)
            \o ",START-DATE=\"" \o FormatTime(daterange.StartDate) \o "\""
            \o (IF daterange.EndDate # <<>>
                THEN ",END-DATE=\"" \o FormatTime(daterange.EndDate[1]) \o "\""
                ELSE "")
            \o (IF daterange.Duration # <<>>
                THEN ",DURATION=" \o FormatFloat(daterange.Duration[1])
                ELSE "")
            \o (IF daterange.PlannedDuration # <<>>
                THEN ",PLANNED-DURATION=" \o FormatFloat(daterange.PlannedDuration[1])
                ELSE "")
            \o x
            \o Quoted(",SCTE35-CMD=\"", daterange.SCTE35Command)
            \o Quoted(",SCTE35-IN=\"", daterange.SCTE35In)
            \o Quoted(",SCTE35-OUT=\"", daterange.SCTE35Out)
            \o (IF daterange.EndOnNext THEN ",END-ON-NEXT=YES" ELSE ""))>> :
        x \in EncodeX(daterange.X)}

RECURSIVE EncodeDateranges(_)
EncodeDateranges(dateranges) ==
    IF dateranges = <<>>
    THEN {<<>>}
    ELSE {a \o b : a \in EncodeDaterange(Head(dateranges)),
                   b \in EncodeDateranges(Tail(dateranges))}

(* the text of the key tag of the key *)
KeyText(key) ==
    "METHOD=" \o key.Method
    \o (IF key.Method # "NONE"
        THEN ",URI=\"" \o key.URI \o "\""
             \o (IF key.IV # "" THEN ",IV=" \o key.IV ELSE "")
             \o (IF key.Keyformat # ""
                 THEN ",KEYFORMAT=\"" \o key.Keyformat \o "\""
                 ELSE "")
             \o (IF key.Keyformatversions # ""
                 THEN ",KEYFORMATVERSIONS=\"" \o key.Keyformatversions \o "\""
                 ELSE "")
        ELSE "")

(* the key tag written for every segment that has a key *)
EncodeKey_NoDedup(seg, lastKey) ==
    IF seg.Key # <<>> THEN <<Line("#EXT-X-KEY:", KeyText(seg.Key[1]))>> ELSE <<>>

(* the key tag of a segment, lastKey the key of the segment before *)
EncodeKey(seg, lastKey) ==
    IF seg.Key # <<>> /\ (lastKey = <<>> \/ ~KeyEqual(seg.Key[1], lastKey[1]))
    THEN <<Line("#EXT-X-KEY:", KeyText(seg.Key[1]))>>
    ELSE <<>>

(* the map tag written for every segment that has a map *)
EncodeMap_NoDedup(seg, lastMap) ==
    IF seg.Map # <<>>
    THEN LET mp == seg.Map[1]
         IN <<Line("#EXT-X-MAP:",
                   "URI=\"" \o mp.URI \o "\""
                   \o (IF mp.Limit > 0
                       THEN ",BYTERANGE=" \o FormatInt(mp.Limit) \o "@"
                            \o FormatInt(mp.Offset)
                       ELSE ""))>>
    ELSE <<>>

(* the map tag of a segment, lastMap the map of the segment before *)
EncodeMap(seg, lastMap) ==
    IF seg.Map # <<>> /\ (lastMap = <<>> \/ ~MapEqual(seg.Map[1], lastMap[1]))
    THEN LET mp == seg.Map[1]
         IN <<Line("#EXT-X-MAP:",
                   "URI=\"" \o mp.URI \o "\""
                   \o (IF mp.Limit > 0
                       THEN ",BYTERANGE=" \o FormatInt(mp.Limit) \o "@"
                            \o FormatInt(mp.Offset)
                       ELSE ""))>>
    ELSE <<>>

(* the text of the duration d: from the cache when the cache has it *)
DurationText(q, d, durationCache) ==
    IF \E e \in durationCache : e.d = d
    THEN (CHOOSE e \in durationCache : e.d = d).str
    ELSE IF q.durationAsInt
    THEN FormatInt(Ceil(d) \div 2)
    ELSE FormatFloat3(d)

(* the lines of one pass of the segment loop *)
EncodeSegment(q, seg, lastKey, lastMap, durationCache) ==
    {EncodeSCTE(seg)
     \o dateranges
     \o EncodeKey(seg, lastKey)
     \o (IF seg.Discontinuity THEN <<Line("#EXT-X-DISCONTINUITY", "")>> ELSE <<>>)
     \o EncodeMap(seg, lastMap)
     \o (IF seg.ProgramDateTime # 0
         THEN <<Line("#EXT-X-PROGRAM-DATE-TIME:", FormatTime(seg.ProgramDateTime))>>
         ELSE <<>>)
     \o (IF seg.Limit > 0
         THEN <<Line("#EXT-X-BYTERANGE:",
                     FormatInt(seg.Limit) \o "@" \o FormatInt(seg.Offset))>>
         ELSE <<>>)
     \o custom
     \o <<Line("#EXTINF:",
               DurationText(q, seg.Duration, durationCache) \o "," \o seg.Title),
          Line("", seg.URI \o (IF q.Args # "" THEN "?" \o q.Args ELSE ""))>> :
        dateranges \in EncodeDateranges(seg.Dateranges),
        custom \in CustomLines(seg.Custom)}

(* the segment loop from the i-th element of the list on *)
RECURSIVE EncodeSegments(_, _, _, _, _)
EncodeSegments(q, i, lastKey, lastMap, durationCache) ==
    IF i > Len(q.Segments)
    THEN {<<>>}
    ELSE LET seg == q.heap[q.Segments[i]]
             cache == durationCache
                      \cup {[d |-> seg.Duration,
                             str |-> DurationText(q, seg.Duration, durationCache)]}
         IN {a \o b : a \in EncodeSegment(q, seg, lastKey, lastMap, durationCache),
                      b \in EncodeSegments(q, i + 1, seg.Key, seg.Map, cache)}

(* Encode that writes the end-list tag of an open playlist too *)
Encode_EndlistAlways(q) ==
    {EncodeHeader(q, custom) \o segments \o <<Line("#EXT-X-ENDLIST", "")>> :
        custom \in CustomLines(q.Custom),
        segments \in EncodeSegments(q, 1, <<>>, <<>>, {})}

(* the buffers Encode can return for the media playlist q *)
Encode(q) ==
    {EncodeHeader(q, custom) \o segments
     \o (IF q.Closed THEN <<Line("#EXT-X-ENDLIST", "")>> ELSE <<>>) :
        custom \in CustomLines(q.Custom),
        segments \in EncodeSegments(q, 1, <<>>, <<>>, {})}

(* Encode that closes the playlist it has written *)
Encoded_Closes(q) == {[p |-> [q EXCEPT !.Closed = TRUE], buf |-> b] : b \in Encode(q)}

(* the call of Encode: the playlist after it and the buffer it returns *)
Encoded(q) == {[p |-> q, buf |-> b] : b \in Encode(q)}

(* an attribute of a string field: written when the field is not empty *)
Attr(attr, v, close) == IF v # "" THEN attr \o v \o close ELSE ""

(* strings.Contains(s, substr), tabulated on the URIs of the model *)
Contains(s, substr) == <<s, substr>> \in {<<"a.m3u8?token=1", "?">>}

(* the EXT-X-MEDIA tag of one alternative rendition *)
EncodeAlternative(alt) ==
    Line("#EXT-X-MEDIA:",
         Attr("TYPE=", alt.Type, "")
         \o Attr(",GROUP-ID=\"", alt.GroupId, "\"")
         \o Attr(",NAME=\"", alt.Name, "\"")
         \o ",DEFAULT=" \o (IF alt.Default THEN "YES" ELSE "NO")
         \o Attr(",AUTOSELECT=", alt.Autoselect, "")
         \o Attr(",LANGUAGE=\"", alt.Language, "\"")
         \o Attr(",FORCED=", alt.Forced, "")
         \o (IF alt.Type = "CLOSED-CAPTIONS"
             THEN Attr(",INSTREAM-ID=\"", alt.InstreamID, "\"")
             ELSE "")
         \o Attr(",CHARACTERISTICS=\"", alt.Characteristics, "\"")
         \o Attr(",CHANNELS=\"", alt.Channels, "\"")
         \o Attr(",SUBTITLES=\"", alt.Subtitles, "\"")
         \o Attr(",URI=\"", alt.URI, "\""))

(* fmt.Sprintf("%s-%s-%s-%s", ...): the key an alternative is written once under *)
altKey(alt) == alt.Type \o "-" \o alt.GroupId \o "-" \o alt.Name \o "-" \o alt.Language

(* the loop over the alternatives of one variant: the lines written and    *)
(* the keys written so far                                                 *)
RECURSIVE EncodeAlternatives(_, _)
EncodeAlternatives(alts, altsWritten) ==
    IF alts = <<>>
    THEN [lines |-> <<>>, altsWritten |-> altsWritten]
    ELSE LET alt == Head(alts)
         IN IF altKey(alt) \in altsWritten
            THEN EncodeAlternatives(Tail(alts), altsWritten)
            ELSE LET r == EncodeAlternatives(Tail(alts), altsWritten \cup {altKey(alt)})
                 IN [lines |-> <<EncodeAlternative(alt)>> \o r.lines,
                     altsWritten |-> r.altsWritten]

(* the stream tag of the variant pl of the master playlist q *)
EncodeVariant(q, pl) ==
    LET v == pl.VariantParams
    IN IF v.Iframe
       THEN <<Line("#EXT-X-I-FRAME-STREAM-INF:",
                   "BANDWIDTH=" \o FormatUint(v.Bandwidth)
                   \o (IF q.ver < 6
                       THEN ",PROGRAM-ID=" \o FormatUint(v.ProgramId)
                       ELSE "")
                   \o (IF v.AverageBandwidth # 0
                       THEN ",AVERAGE-BANDWIDTH=" \o FormatUint(v.AverageBandwidth)
                       ELSE "")
                   \o Attr(",CODECS=\"", v.Codecs, "\"")
                   \o Attr(",RESOLUTION=", v.Resolution, "")
                   \o Attr(",VIDEO=\"", v.Video, "\"")
                   \o Attr(",VIDEO-RANGE=", v.VideoRange, "")
                   \o Attr(",HDCP-LEVEL=", v.HDCPLevel, "")
                   \o Attr(",URI=\"", pl.URI, "\""))>>
       ELSE <<Line("#EXT-X-STREAM-INF:",
                   "BANDWIDTH=" \o FormatUint(v.Bandwidth)
                   \o (IF q.ver < 6
                       THEN ",PROGRAM-ID=" \o FormatUint(v.ProgramId)
                       ELSE "")
                   \o (IF v.AverageBandwidth # 0
                       THEN ",AVERAGE-BANDWIDTH=" \o FormatUint(v.AverageBandwidth)
                       ELSE "")
                   \o Attr(",CODECS=\"", v.Codecs, "\"")
                   \o Attr(",RESOLUTION=", v.Resolution, "")
                   \o Attr(",AUDIO=\"", v.Audio, "\"")
                   \o Attr(",VIDEO=\"", v.Video, "\"")
                   \o (IF v.Captions = "NONE"
                       THEN Attr(",CLOSED-CAPTIONS=", v.Captions, "")
                       ELSE Attr(",CLOSED-CAPTIONS=\"", v.Captions, "\""))
                   \o Attr(",SUBTITLES=\"", v.Subtitles, "\"")
                   \o Attr(",NAME=\"", v.Name, "\"")
                   \o (IF v.FrameRate # 0
                       THEN ",FRAME-RATE=" \o FormatFloat3(2 * v.FrameRate)
                       ELSE "")
                   \o Attr(",VIDEO-RANGE=", v.VideoRange, "")
                   \o Attr(",HDCP-LEVEL=", v.HDCPLevel, "")),
              Line("",
                   pl.URI
                   \o (IF q.Args # ""
                       THEN (IF Contains(pl.URI, "?") THEN "&" ELSE "?") \o q.Args
                       ELSE ""))>>

(* the loop over the variants from the i-th on *)
RECURSIVE EncodeVariants(_, _, _)
EncodeVariants(q, i, altsWritten) ==
    IF i > Len(q.Variants)
    THEN <<>>
    ELSE LET pl == q.Variants[i]
             r == EncodeAlternatives(pl.VariantParams.Alternatives, altsWritten)
         IN r.lines \o EncodeVariant(q, pl) \o EncodeVariants(q, i + 1, r.altsWritten)

(* the buffers Encode can return for the master playlist q *)
MasterEncode(q) ==
    {<<Line("#EXTM3U", ""), Line("#EXT-X-VERSION:", strver(q.ver))>>
     \o (IF q.independentSegments
         THEN <<Line("#EXT-X-INDEPENDENT-SEGMENTS", "")>>
         ELSE <<>>)
     \o custom
     \o EncodeVariants(q, 1, {}) : custom \in CustomLines(q.Custom)}

(* the call of Encode on the master playlist *)
MasterEncoded(q) == {[p |-> q, buf |-> b] : b \in MasterEncode(q)}

----------------------------------------------------------------------------
(* The calls on a media playlist, with the history they leave *)

Counted == ncalls < budget /\ ncalls' = ncalls + 1

Returns(r) == p' = r.p /\ ret' = [err |-> r.err, buf |-> <<>>] /\ Counted

(* a is the address of the segment the call appended to r.p *)
AppendHistory(r, a) ==
    /\ maxAssigned' = Max(maxAssigned, r.p.heap[a].SeqId)
    /\ maxDur' = IF maxDur = <<>>
                 THEN <<r.p.heap[a].Duration>>
                 ELSE <<Max(maxDur[1], r.p.heap[a].Duration)>>

CallAppend(uri, duration, title) ==
    /\ kind = "media"
    /\ Len(p.Segments) < MaxLen
    /\ LET r == MediaAppend(p, uri, duration, title)
       IN Returns(r) /\ AppendHistory(r, NewAddr(p))
    /\ UNCHANGED <<kind, budget, m, removedClosed, reappended, calls>>

(* AppendSegment with a segment object the caller has just built *)
CallAppendSegmentNew(seg) ==
    /\ kind = "media"
    /\ Len(p.Segments) < MaxLen
    /\ LET r == AppendSegment(Alloc(p, seg), NewAddr(p))
       IN Returns(r) /\ AppendHistory(r, NewAddr(p))
    /\ UNCHANGED <<kind, budget, m, removedClosed, reappended, calls>>

(* AppendSegment with a segment object the playlist already holds *)
CallAppendSegmentHeld(a) ==
    /\ kind = "media"
    /\ Len(p.Segments) < MaxLen
    /\ a \in Held(p)
    /\ LET r == AppendSegment(p, a)
       IN Returns(r) /\ AppendHistory(r, a)
    /\ reappended' = TRUE
    /\ UNCHANGED <<kind, budget, m, removedClosed, calls>>

CallRemove ==
    /\ kind = "media"
    /\ Returns(Remove(p))
    /\ removedClosed' = (removedClosed \/ (p.Closed /\ Len(p.Segments) > 0))
    /\ UNCHANGED <<kind, budget, m, maxAssigned, maxDur, reappended, calls>>

CallSlide(uri, duration, title) ==
    /\ kind = "media"
    /\ \/ Len(p.Segments) < MaxLen
       \/ ~p.Closed /\ Len(p.Segments) >= p.winsize /\ Len(p.Segments) > 0
    /\ LET r == Slide(p, uri, duration, title)
       IN Returns(r) /\ AppendHistory(r, last(r.p))
    /\ UNCHANGED <<kind, budget, m, removedClosed, reappended, calls>>

CallClose ==
    /\ kind = "media"
    /\ Returns(Close(p))
    /\ UNCHANGED <<kind, budget, m, maxAssigned, maxDur, removedClosed, reappended, calls>>

(* a call that appends and removes nothing *)
MediaCall(r) ==
    /\ kind = "media"
    /\ Returns(r)
    /\ UNCHANGED <<kind, budget, m, maxAssigned, maxDur, removedClosed, reappended>>

CallDurationAsInt(yes) == MediaCall(DurationAsInt(p, yes)) /\ UNCHANGED calls

CallSetIframeOnly == MediaCall(SetIframeOnly(p)) /\ UNCHANGED calls

CallSetKey(k) == MediaCall(SetKey(p, k[1], k[2], k[3], k[4], k[5])) /\ UNCHANGED calls

CallSetMap(uri, limit, offset) == MediaCall(SetMap(p, uri, limit, offset)) /\ UNCHANGED calls

CallSetRange(limit, offset) == MediaCall(SetRange(p, limit, offset)) /\ UNCHANGED calls

CallSetSCTE(cue, id, time) == MediaCall(SetSCTE(p, cue, id, time)) /\ UNCHANGED calls

CallSetSCTE35(scte35) == MediaCall(SetSCTE35(p, scte35)) /\ UNCHANGED calls

CallSetDateranges(dateranges) == MediaCall(SetDateranges(p, dateranges)) /\ UNCHANGED calls

CallSetDiscontinuity == MediaCall(SetDiscontinuity(p)) /\ UNCHANGED calls

CallSetProgramDateTime(value) == MediaCall(SetProgramDateTime(p, value)) /\ UNCHANGED calls

CallSetCustomTag(tag) == MediaCall(SetCustomTag(p, tag)) /\ UNCHANGED calls

CallSetCustomSegmentTag(tag) == MediaCall(SetCustomSegmentTag(p, tag)) /\ UNCHANGED calls

CallSetVersion(ver) == MediaCall(SetVersion(p, ver)) /\ UNCHANGED calls

CallSetWinSize(w) == MediaCall(SetWinSize(p, w)) /\ UNCHANGED calls

CallEncode ==
    /\ kind = "media"
    /\ \E r \in Encoded(p) : p' = r.p /\ ret' = [err |-> None, buf |-> r.buf]
    /\ UNCHANGED <<kind, budget, m, ncalls, maxAssigned, maxDur, removedClosed, reappended,
                   calls>>

(* The calls on a master playlist *)
MasterCall(q) ==
    /\ kind = "master"
    /\ m' = q
    /\ ret' = [err |-> None, buf |-> <<>>]
    /\ Counted
    /\ UNCHANGED <<kind, budget, p, maxAssigned, maxDur, removedClosed, reappended>>

CallMasterAppend(uri, params) ==
    /\ Len(m.Variants) < MaxVariants
    /\ MasterCall(MasterAppend(m, uri, Nil, params))
    /\ UNCHANGED calls

CallMasterSetVersion(ver) == MasterCall(MasterSetVersion(m, ver)) /\ UNCHANGED calls

CallMasterSetIndependentSegments(b) ==
    MasterCall(MasterSetIndependentSegments(m, b)) /\ UNCHANGED calls

CallMasterSetCustomTag(tag) == MasterCall(MasterSetCustomTag(m, tag)) /\ UNCHANGED calls

CallMasterEncode ==
    /\ kind = "master"
    /\ \E r \in MasterEncoded(m) : m' = r.p /\ ret' = [err |-> None, buf |-> r.buf]
    /\ UNCHANGED <<kind, budget, p, ncalls, maxAssigned, maxDur, removedClosed, reappended,
                   calls>>

(* Inputs of the setters *)
Keys ==
    {<<"AES-128", "key.bin", "", "", "">>,
     <<"SAMPLE-AES", "key.bin", "", "com.apple.streamingkeydelivery", "">>,
     <<"SAMPLE-AES", "key.bin", "", "", "1">>}
MapURIs == {"init.mp4"}
Ranges == {<<10, 5>>}
SCTEs == {[NewSCTE EXCEPT !.Syntax = SCTE35_OATCLS, !.CueType = SCTE35Cue_Mid,
                         !.Cue = "cue", !.Time = 6, !.Elapsed = 2]}
NewDateRange ==
    [ID |-> "", Class |-> <<>>, StartDate |-> 0, EndDate |-> <<>>, Duration |-> <<>>,
     PlannedDuration |-> <<>>, X |-> {}, SCTE35Command |-> <<>>, SCTE35In |-> <<>>,
     SCTE35Out |-> <<>>, EndOnNext |-> FALSE]
DaterangeLists ==
    {<<[NewDateRange EXCEPT !.ID = "dr", !.StartDate = 1, !.Duration = <<6>>,
                            !.X = {[name |-> "A", text |-> "1"]}, !.EndOnNext = TRUE]>>}
Times == {1}
Tags == {[name |-> "#X-TAG", text |-> "#X-TAG:1"]}
NewAlternative ==
    [Type |-> "", GroupId |-> "", Name |-> "", Language |-> "", Default |-> FALSE,
     Autoselect |-> "", Forced |-> "", InstreamID |-> "", Characteristics |-> "",
     Channels |-> "", Subtitles |-> "", URI |-> ""]
Alternative ==
    [NewAlternative EXCEPT !.Type = "AUDIO", !.GroupId = "aud", !.Name = "en",
                           !.Language = "en", !.Default = TRUE, !.URI = "en.m3u8"]
NewVariantParams ==
    [ProgramId |-> 0, Bandwidth |-> 0, AverageBandwidth |-> 0, Codecs |-> "",
     Resolution |-> "", Audio |-> "", Video |-> "", Subtitles |-> "", Captions |-> "",
     Name |-> "", Iframe |-> FALSE, VideoRange |-> "", HDCPLevel |-> "",
     FrameRate |-> 0, Alternatives |-> <<>>]
Params ==
    {[NewVariantParams EXCEPT !.Bandwidth = 1, !.Captions = "NONE", !.FrameRate = 30],
     [NewVariantParams EXCEPT !.Bandwidth = 2, !.Audio = "aud", !.Iframe = TRUE,
                              !.Alternatives = <<Alternative>>]}

----------------------------------------------------------------------------
(* Sequencing: a media playlist under Append, AppendSegment, Remove, Slide *)
(* and Close, with durations of every sign.                                *)

InitMedia(w, n) ==
    /\ kind = "media"
    /\ budget = n
    /\ p = NewMediaPlaylist(w)
    /\ m = NewMasterPlaylist
    /\ ret = [err |-> None, buf |-> <<>>]
    /\ ncalls = 0
    /\ maxAssigned = -1
    /\ maxDur = <<>>
    /\ removedClosed = FALSE
    /\ reappended = FALSE
    /\ calls = [start |-> minver, names |-> <<>>]

InitSeq == \E w \in 0 .. MaxWin : InitMedia(w, MaxOps)

BuiltSegments(D) == {[NewMediaSegment EXCEPT !.URI = u, !.Duration = d] : u \in URIs, d \in D}

NextSeq ==
    \/ \E u \in URIs, d \in Durations, t \in Titles : CallAppend(u, d, t)
    \/ \E seg \in BuiltSegments(Durations) : CallAppendSegmentNew(seg)
    \/ \E a \in Addrs : CallAppendSegmentHeld(a)
    \/ CallRemove
    \/ \E u \in URIs, d \in Durations, t \in Titles : CallSlide(u, d, t)
    \/ CallClose

SpecSeq == InitSeq /\ [][NextSeq]_vars

----------------------------------------------------------------------------
(* The live window: a new media playlist under Slide alone *)

NextSlide == \E u \in URIs, d \in Durations, t \in Titles : CallSlide(u, d, t)

SpecSlide == InitSeq /\ [][NextSlide]_vars

----------------------------------------------------------------------------
(* Appends only: a media playlist under Append and AppendSegment.  The     *)
(* playlist starts empty with a media sequence number k: the state a new   *)
(* playlist is in after k times Append of a zero duration and Remove.      *)

RECURSIVE Drained(_, _)
Drained(w, k) ==
    IF k = 0
    THEN NewMediaPlaylist(w)
    ELSE Remove(MediaAppend(Drained(w, k - 1), "a.ts", 0, "").p).p

InitAppend ==
    \E w \in 0 .. MaxWin, k \in 0 .. MaxDrained :
        /\ kind = "media"
        /\ budget = MaxOps
        /\ p = Drained(w, k)
        /\ m = NewMasterPlaylist
        /\ ret = [err |-> IF k = 0 THEN None ELSE Nil, buf |-> <<>>]
        /\ ncalls = 0
        /\ maxAssigned = k - 1
        /\ maxDur = IF k = 0 THEN <<>> ELSE <<0>>
        /\ removedClosed = FALSE
        /\ reappended = FALSE
        /\ calls = [start |-> minver, names |-> <<>>]

NextAppend ==
    \/ \E u \in URIs, d \in Durations, t \in Titles : CallAppend(u, d, t)
    \/ \E seg \in BuiltSegments(Durations) : CallAppendSegmentNew(seg)
    \/ \E a \in Addrs : CallAppendSegmentHeld(a)

SpecAppend == InitAppend /\ [][NextAppend]_vars

----------------------------------------------------------------------------
(* The whole interface: a media playlist or a master playlist under every  *)
(* mutation, with one duration.                                            *)

InitMaster(n) ==
    /\ kind = "master"
    /\ budget = n
    /\ p = NewMediaPlaylist(0)
    /\ m = NewMasterPlaylist
    /\ ret = [err |-> None, buf |-> <<>>]
    /\ ncalls = 0
    /\ maxAssigned = -1
    /\ maxDur = <<>>
    /\ removedClosed = FALSE
    /\ reappended = FALSE
    /\ calls = [start |-> minver, names |-> <<>>]

Init == InitMaster(MaxOpsAll) \/ \E w \in 0 .. MaxWin : InitMedia(w, MaxOpsAll)

(* the versions SetVersion is given: one below and one above every version *)
(* a feature asks for                                                      *)
SetVersions == {1, MaxSetVer}

SetVersionStep == \E v \in SetVersions : CallSetVersion(v) \/ CallMasterSetVersion(v)

Next ==
    \/ \E u \in URIs, d \in OneDuration, t \in Titles : CallAppend(u, d, t)
    \/ \E seg \in BuiltSegments(OneDuration) : CallAppendSegmentNew(seg)
    \/ \E a \in Addrs : CallAppendSegmentHeld(a)
    \/ CallRemove
    \/ \E u \in URIs, d \in OneDuration, t \in Titles : CallSlide(u, d, t)
    \/ CallClose
    \/ \E yes \in BOOLEAN : CallDurationAsInt(yes)
    \/ CallSetIframeOnly
    \/ \E k \in Keys : CallSetKey(k)
    \/ \E u \in MapURIs : CallSetMap(u, 0, 0)
    \/ \E r \in Ranges : CallSetRange(r[1], r[2])
    \/ CallSetSCTE("cue", "id", 0)
    \/ \E c \in SCTEs : CallSetSCTE35(c)
    \/ \E l \in DaterangeLists : CallSetDateranges(l)
    \/ CallSetDiscontinuity
    \/ \E t \in Times : CallSetProgramDateTime(t)
    \/ \E tag \in Tags : CallSetCustomTag(tag)
    \/ \E tag \in Tags : CallSetCustomSegmentTag(tag)
    \/ \E w \in 0 .. MaxWin : CallSetWinSize(w)
    \/ \E v \in SetVersions : CallSetVersion(v)
    \/ \E u \in URIs, a \in Params : CallMasterAppend(u, a)
    \/ \E v \in SetVersions : CallMasterSetVersion(v)
    \/ \E b \in BOOLEAN : CallMasterSetIndependentSegments(b)
    \/ \E tag \in Tags : CallMasterSetCustomTag(tag)
    \/ CallEncode
    \/ CallMasterEncode

Spec == Init /\ [][Next]_vars

----------------------------------------------------------------------------
(* Encoding: a media playlist under the calls whose effect Encode writes   *)
(* per segment or in an order the map decides, and a master playlist whose *)
(* variants share alternatives.                                            *)

Tags2 == {[name |-> "#X-A", text |-> "#X-A:1"], [name |-> "#X-B", text |-> "#X-B:2"]}

DaterangeLists2 ==
    {<<[NewDateRange EXCEPT !.ID = "dr", !.StartDate = 1,
                            !.X = {[name |-> "A", text |-> "1"],
                                   [name |-> "B", text |-> "2"]}]>>}

(* two alternatives whose group id and name differ and hold a '-' *)
AltDash1 == [Alternative EXCEPT !.GroupId = "a-b", !.Name = "c"]
AltDash2 == [Alternative EXCEPT !.GroupId = "a", !.Name = "b-c"]

ParamsAlt ==
    {[NewVariantParams EXCEPT !.Bandwidth = 1, !.Alternatives = <<Alternative>>],
     [NewVariantParams EXCEPT !.Bandwidth = 2, !.Alternatives = <<AltDash1>>],
     [NewVariantParams EXCEPT !.Bandwidth = 3, !.Alternatives = <<AltDash2, Alternative>>]}

InitEnc == InitMaster(MaxOpsEnc) \/ InitMedia(MaxLen, MaxOpsEnc)

NextEnc ==
    \/ \E u \in URIs, d \in OneDuration, t \in Titles : CallAppend(u, d, t)
    \/ \E k \in Keys : CallSetKey(k)
    \/ CallRemove
    \/ CallClose
    \/ \E tag \in Tags2 : CallSetCustomTag(tag)
    \/ \E tag \in Tags2 : CallSetCustomSegmentTag(tag)
    \/ \E l \in DaterangeLists2 : CallSetDateranges(l)
    \/ \E yes \in BOOLEAN : CallDurationAsInt(yes)
    \/ CallEncode
    \/ \E u \in URIs, a \in ParamsAlt : CallMasterAppend(u, a)
    \/ \E tag \in Tags2 : CallMasterSetCustomTag(tag)
    \/ CallMasterEncode

SpecEnc == InitEnc /\ [][NextEnc]_vars

----------------------------------------------------------------------------
(* Initialization maps: a media playlist under Append, SetMap, Remove and  *)
(* Encode, with maps that differ in the URI or in the byte range.          *)

Maps == {<<"init.mp4", 0, 0>>, <<"init.mp4", 10, 0>>, <<"init2.mp4", 0, 0>>}

InitMap == InitMedia(MaxLen, MaxOpsEnc)

NextMap ==
    \/ \E u \in URIs, d \in OneDuration, t \in Titles : CallAppend(u, d, t)
    \/ \E mp \in Maps : CallSetMap(mp[1], mp[2], mp[3])
    \/ CallRemove
    \/ CallEncode

SpecMap == InitMap /\ [][NextMap]_vars

----------------------------------------------------------------------------
(* Features brought by the caller: a media playlist under the mutations    *)
(* but SetVersion, where AppendSegment is given segments the caller has    *)
(* built with a Map, a Key or a byte range on them.                        *)

FeaturedSegments ==
    {[NewMediaSegment EXCEPT !.URI = "a.ts", !.Duration = 3],
     [NewMediaSegment EXCEPT !.URI = "a.ts", !.Duration = 3,
                             !.Map = <<[URI |-> "init.mp4", Limit |-> 0, Offset |-> 0]>>],
     [NewMediaSegment EXCEPT !.URI = "a.ts", !.Duration = 3,
                             !.Key = <<[Method |-> "SAMPLE-AES", URI |-> "key.bin",
                                        IV |-> "", Keyformat |-> "",
                                        Keyformatversions |-> "1"]>>],
     [NewMediaSegment EXCEPT !.URI = "a.ts", !.Duration = 3, !.Limit = 10, !.Offset = 5]}

InitFeatured == \E w \in 0 .. MaxWin : InitMedia(w, MaxOpsAll)

NextFeatured ==
    \/ \E u \in URIs, d \in OneDuration, t \in Titles : CallAppend(u, d, t)
    \/ \E seg \in FeaturedSegments : CallAppendSegmentNew(seg)
    \/ CallRemove
    \/ \E u \in URIs, d \in OneDuration, t \in Titles : CallSlide(u, d, t)
    \/ CallClose
    \/ \E k \in Keys : CallSetKey(k)
    \/ \E u \in MapURIs : CallSetMap(u, 0, 0)
    \/ \E r \in Ranges : CallSetRange(r[1], r[2])

SpecFeatured == InitFeatured /\ [][NextFeatured]_vars

----------------------------------------------------------------------------
(* Version negotiation: the feature-introducing calls on a media playlist  *)
(* with n segments, or on a master playlist, whose version SetVersion has  *)
(* set to v0.  calls logs the calls made.                                  *)

Logged(name) ==
    /\ Len(calls.names) < MaxCalls
    /\ calls' = [calls EXCEPT !.names = Append(@, name)]

InitNeg ==
    \E v0 \in 1 .. MaxSetVer :
        /\ ret = [err |-> None, buf |-> <<>>]
        /\ budget = MaxOps
        /\ ncalls = 0
        /\ removedClosed = FALSE
        /\ reappended = FALSE
        /\ calls = [start |-> v0, names |-> <<>>]
        /\ \/ /\ kind = "media"
              /\ p = SetVersion(NewMediaPlaylist(1), v0).p
              /\ maxAssigned = -1
              /\ maxDur = <<>>
              /\ m = NewMasterPlaylist
           \/ /\ kind = "media"
              /\ p = SetVersion(MediaAppend(NewMediaPlaylist(1), "a.ts", 3, "").p, v0).p
              /\ maxAssigned = 0
              /\ maxDur = <<3>>
              /\ m = NewMasterPlaylist
           \/ /\ kind = "master"
              /\ p = NewMediaPlaylist(0)
              /\ maxAssigned = -1
              /\ maxDur = <<>>
              /\ m = MasterSetVersion(NewMasterPlaylist, v0)

NegDurationAsInt(yes) ==
    /\ MediaCall(DurationAsInt(p, yes))
    /\ Logged(IF yes THEN "DurationAsInt(true)" ELSE "DurationAsInt(false)")

NegSetIframeOnly == MediaCall(SetIframeOnly(p)) /\ Logged("SetIframeOnly")

NegSetKey(k) ==
    /\ MediaCall(SetKey(p, k[1], k[2], k[3], k[4], k[5]))
    /\ Logged(IF k[4] # "" \/ k[5] # "" THEN "SetKey(format)" ELSE "SetKey")

NegSetMap(uri, limit, offset) == MediaCall(SetMap(p, uri, limit, offset)) /\ Logged("SetMap")

NegSetRange(limit, offset) == MediaCall(SetRange(p, limit, offset)) /\ Logged("SetRange")

NegMasterAppend(uri, params) ==
    /\ Len(m.Variants) < MaxVariants
    /\ MasterCall(MasterAppend(m, uri, Nil, params))
    /\ Logged(IF Len(params.Alternatives) > 0 THEN "Append(alternatives)" ELSE "Append")

NextNeg ==
    \/ \E yes \in BOOLEAN : NegDurationAsInt(yes)
    \/ NegSetIframeOnly
    \/ \E k \in Keys : NegSetKey(k)
    \/ \E u \in MapURIs : NegSetMap(u, 0, 0)
    \/ \E r \in Ranges : NegSetRange(r[1], r[2])
    \/ \E u \in URIs, a \in Params : NegMasterAppend(u, a)

SpecNeg == InitNeg /\ [][NextNeg]_vars

----------------------------------------------------------------------------
(* Claims on sequencing *)

Count(q) == Len(q.Segments)

(* the SeqIds in list order are s, s+1, ... *)
CountsFrom(q, s) == \A i \in 1 .. Count(q) : SegList(q)[i].SeqId = s + i - 1

Contiguous(q) ==
    \A i \in 1 .. Count(q) - 1 : SegList(q)[i + 1].SeqId = SegList(q)[i].SeqId + 1

AppendStep ==
    \/ \E u \in URIs, d \in Durations, t \in Titles : CallAppend(u, d, t)
    \/ \E seg \in BuiltSegments(Durations) : CallAppendSegmentNew(seg)
    \/ \E a \in Addrs : CallAppendSegmentHeld(a)
    \/ \E u \in URIs, d \in Durations, t \in Titles : CallSlide(u, d, t)

SlideStep == \E u \in URIs, d \in Durations, t \in Titles : CallSlide(u, d, t)

(* C1 as stated: under Append and AppendSegment alone (SpecAppend, where    *)
(* SeqNo stays what it was at the first append), the SeqIds in list order  *)
(* are SeqNo, SeqNo+1, ...                                                 *)
C1_AsStated == Count(p) >= 1 => CountsFrom(p, p.SeqNo)

(* C1 amended: under Append and AppendSegment alone, when no AppendSegment *)
(* was given a segment object the playlist already holds, the SeqIds in    *)
(* list order are s, s+1, ..., s+n-1 with s the SeqNo at the first append. *)
C1_SeqIdsCountFromSeqNo == (Count(p) >= 1 /\ ~reappended) => CountsFrom(p, p.SeqNo)

C1_Witness == Count(p) = 3 /\ ~reappended /\ p.SeqNo = MaxDrained

(* the SeqId the append step has just assigned *)
Assigned(q) == q.heap[last(q)].SeqId

(* C2 as stated: under Append, AppendSegment, Remove, Slide and Close the  *)
(* retained SeqIds go up by 1 from each segment to the next, and every     *)
(* append assigns a SeqId above every SeqId assigned before.               *)
C2_AsStated == [][Contiguous(p') /\ (AppendStep => Assigned(p') > maxAssigned)]_vars

(* C2 amended: while no AppendSegment has been given a segment object the  *)
(* playlist already holds, the retained SeqIds go up by 1 from each        *)
(* segment to the next, and, while moreover no Remove has succeeded on the *)
(* closed playlist, every append assigns a SeqId above every SeqId         *)
(* assigned before (also when Remove emptied the open playlist between).   *)
C2_SeqIdsContiguousIncreasing ==
    [][~reappended' =>
         /\ Contiguous(p')
         /\ (AppendStep /\ ~removedClosed) => Assigned(p') > maxAssigned]_vars

(* an append onto the open playlist that Remove has emptied *)
C2_Witness ==
    /\ ~reappended /\ ~removedClosed
    /\ Count(p) = 1 /\ p.SeqNo = 1 /\ maxAssigned = 1

(* C3 as stated: whenever the playlist retains a segment (every appended   *)
(* segment object being new to the list, as with Append), SeqNo is the     *)
(* SeqId of the head segment.                                              *)
C3_AsStated == (Count(p) >= 1 /\ ~reappended) => p.SeqNo = SegList(p)[1].SeqId

(* C3 amended: whenever the playlist retains a segment and no Remove has   *)
(* succeeded while it was closed (every appended segment object being new  *)
(* to the list, as with Append), SeqNo is the SeqId of the head segment.   *)
C3_SeqNoIsHeadSeqId ==
    (Count(p) >= 1 /\ ~removedClosed /\ ~reappended) => p.SeqNo = SegList(p)[1].SeqId

(* the head has been removed from the open playlist, which was then closed *)
C3_Witness ==
    /\ Count(p) >= 1 /\ ~removedClosed /\ ~reappended
    /\ p.SeqNo = 1 /\ p.Closed

(* C4 as stated: once a segment has been appended, TargetDuration is the   *)
(* ceiling of the largest duration ever appended, and no Remove lowers it. *)
C4_AsStated ==
    [][/\ maxDur' # <<>> => p'.TargetDuration = Ceil(maxDur'[1])
       /\ CallRemove => p'.TargetDuration >= p.TargetDuration]_vars

(* C4 amended: once a segment has been appended, TargetDuration is the     *)
(* ceiling of the largest duration ever appended when that duration is     *)
(* positive and 0 otherwise, and no Remove lowers it.                      *)
C4_TargetDurationHighWater ==
    [][/\ maxDur' # <<>> => p'.TargetDuration = Max(0, Ceil(maxDur'[1]))
       /\ CallRemove => p'.TargetDuration >= p.TargetDuration]_vars

(* the segment of the largest duration has been removed again *)
C4_Witness ==
    /\ maxDur = <<3>> /\ p.TargetDuration = 4
    /\ Count(p) = 1 /\ SegList(p)[1].Duration = -3 /\ p.SeqNo >= 1

(* C5: Remove on a playlist without segments, open or closed, returns the  *)
(* empty-playlist error and changes no field of the playlist.              *)
C5_RemoveOnEmpty ==
    [][(CallRemove /\ Count(p) = 0) => (ret'.err = ErrEmpty /\ p' = p)]_vars

C5_Witness == ret.err = ErrEmpty /\ Count(p) = 0 /\ p.Closed /\ p.SeqNo = 1

----------------------------------------------------------------------------
(* Claims on Remove and the media sequence number *)

(* C6: Remove on a playlist with a segment succeeds, deletes the head and  *)
(* leaves the other segments as they are, in order; it adds 1 to SeqNo on  *)
(* an open playlist and leaves SeqNo on a closed one.  SeqNo changes in no *)
(* other way: a step that changes it is a Remove, or a Slide at or above   *)
(* the window size, of an open playlist with a segment, and adds 1.        *)
C6_RemoveAndSeqNo ==
    [][/\ (CallRemove /\ Count(p) >= 1) =>
            /\ ret'.err = Nil
            /\ Count(p') = Count(p) - 1
            /\ \A i \in 1 .. Count(p') : SegList(p')[i] = SegList(p)[i + 1]
            /\ p'.SeqNo = IF p.Closed THEN p.SeqNo ELSE p.SeqNo + 1
       /\ p'.SeqNo # p.SeqNo =>
            /\ p'.SeqNo = p.SeqNo + 1
            /\ ~p.Closed /\ Count(p) >= 1
            /\ CallRemove \/ (SlideStep /\ Count(p) >= p.winsize)]_vars

(* Remove has taken the head of a closed playlist that keeps a segment *)
C6_Witness ==
    /\ removedClosed /\ p.Closed /\ ret.err = Nil
    /\ Count(p) = 1 /\ p.SeqNo = 0 /\ SegList(p)[1].SeqId = 1

----------------------------------------------------------------------------
(* Claims on version negotiation *)

(* C8: no call other than SetVersion lowers the version of a media or a    *)
(* master playlist.                                                        *)
C8_VersionNeverDecreases ==
    [][~SetVersionStep => (p'.ver >= p.ver /\ m'.ver >= m.ver)]_vars

(* the segment whose Map raised the version has been removed, or           *)
(* DurationAsInt(false) has been called after DurationAsInt(true)          *)
C8_Witness ==
    /\ kind = "media"
    /\ p.ver = 5 /\ Count(p) = 0 /\ p.SeqNo = 1 /\ ret.err = Nil /\ ncalls = 3

Names(c) == {c.names[i] : i \in 1 .. Len(c.names)}

(* the call this step has logged *)
Called == calls'.names[Len(calls'.names)]

FeatureSetters ==
    {"DurationAsInt(true)", "SetIframeOnly", "SetRange", "SetMap", "SetKey(format)"}

(* C9: on a media playlist with a segment, a feature-introducing setter    *)
(* called again leaves the version as it is, and from a version of at most *)
(* 5, DurationAsInt(true), SetRange and SetMap in any order end at 5.      *)
C9_NegotiationIdempotentAnyOrder ==
    /\ [][(/\ Count(p) >= 1
           /\ calls'.names # calls.names
           /\ Called \in FeatureSetters
           /\ Called \in Names(calls)) => p'.ver = p.ver]_vars
    /\ []((/\ Count(p) >= 1
           /\ calls.start <= 5
           /\ Len(calls.names) = 3
           /\ Names(calls) = {"DurationAsInt(true)", "SetRange", "SetMap"}) => p.ver = 5)

C9_Witness ==
    /\ Count(p) >= 1
    /\ calls = [start |-> 1, names |-> <<"SetMap", "SetRange", "DurationAsInt(true)">>]
    /\ p.ver = 5

(* the version each call requires; 0 for a call that introduces no feature *)
Required(name) ==
    CASE name = "SetKey(format)" -> 5
      [] name = "SetMap" -> 5
      [] name = "SetRange" -> 4
      [] name = "SetIframeOnly" -> 4
      [] name = "DurationAsInt(true)" -> 3
      [] name = "Append(alternatives)" -> 4
      [] OTHER -> 0

Ver == IF kind = "media" THEN p.ver ELSE m.ver

(* C10: a feature-introducing call that succeeds sets the version to the   *)
(* larger of the version before and the version the feature requires; a    *)
(* SetKey without key-format and key-format-versions leaves the version.   *)
C10_VersionIsMaxOfRequired ==
    [][(calls'.names # calls.names /\ ret'.err # ErrEmpty) =>
          Ver' = Max(Ver, Required(Called))]_vars

(* SetKey with a key-format on the last segment of a playlist at version 1 *)
C10_Witness ==
    /\ kind = "media" /\ Count(p) = 1
    /\ calls = [start |-> 1, names |-> <<"SetKey(format)">>]
    /\ ret.err = Nil
    /\ SegList(p)[1].Key # <<>>
    /\ p.ver = 5

----------------------------------------------------------------------------
(* Claims on failures *)

(* a step of one of the setters that act on the last segment *)
SegmentSetterStep ==
    \/ \E k \in Keys : CallSetKey(k)
    \/ \E u \in MapURIs : CallSetMap(u, 0, 0)
    \/ \E r \in Ranges : CallSetRange(r[1], r[2])
    \/ CallSetSCTE("cue", "id", 0)
    \/ \E c \in SCTEs : CallSetSCTE35(c)
    \/ \E l \in DaterangeLists : CallSetDateranges(l)
    \/ CallSetDiscontinuity
    \/ \E t \in Times : CallSetProgramDateTime(t)
    \/ \E tag \in Tags : CallSetCustomSegmentTag(tag)

(* C11: a per-segment setter called on a media playlist without segments   *)
(* returns the empty-playlist error and changes no field of the playlist,  *)
(* the version included.                                                   *)
C11_SettersOnEmpty ==
    [][(SegmentSetterStep /\ Count(p) = 0) => (ret'.err = ErrEmpty /\ p' = p)]_vars

(* a setter has failed on the empty playlist whose version SetVersion had  *)
(* put below every version a feature asks for                              *)
C11_Witness ==
    /\ kind = "media" /\ Count(p) = 0 /\ ret.err = ErrEmpty
    /\ p.ver = 1 /\ p.SeqNo = 0 /\ ncalls = 2

(* the Remove that Slide performs fails *)
SlideRemoveFails == ~p.Closed /\ Count(p) >= p.winsize /\ Remove(p).err # Nil

(* C12 as stated: when the Remove that Slide performs fails, the caller of *)
(* Slide is returned that failure.                                         *)
C12_AsStated == [][(SlideStep /\ SlideRemoveFails) => ret'.err = Remove(p).err]_vars

(* a step of Append or AppendSegment *)
AppendOnlyStep ==
    \/ \E u \in URIs, d \in Durations, t \in Titles : CallAppend(u, d, t)
    \/ \E seg \in BuiltSegments(Durations) : CallAppendSegmentNew(seg)
    \/ \E a \in Addrs : CallAppendSegmentHeld(a)

(* the list after the step is the list before with one more element *)
OneMoreAtTail ==
    /\ Count(p') = Count(p) + 1
    /\ \A i \in 1 .. Count(p) : p'.Segments[i] = p.Segments[i]

(* C13 as stated: Append and AppendSegment return no error, add one        *)
(* segment at the tail and leave every earlier segment as it was; no call  *)
(* returns ErrPlaylistFull.                                                *)
C13_AsStated ==
    [][/\ ret'.err # ErrPlaylistFull
       /\ AppendOnlyStep =>
            /\ ret'.err = Nil
            /\ OneMoreAtTail
            /\ \A i \in 1 .. Count(p) : SegList(p')[i] = SegList(p)[i]]_vars

(* C13 amended: Append and AppendSegment return no error and add one       *)
(* element at the tail; every earlier segment that is not the very object  *)
(* appended is left as it was (an object the list already holds, appended  *)
(* again, has its SeqId overwritten); no call returns ErrPlaylistFull.     *)
C13_AppendNeverFails ==
    [][/\ ret'.err # ErrPlaylistFull
       /\ AppendOnlyStep =>
            /\ ret'.err = Nil
            /\ OneMoreAtTail
            /\ \A i \in 1 .. Count(p) :
                  p.Segments[i] # last(p') => SegList(p')[i] = SegList(p)[i]]_vars

(* an append has succeeded on a closed playlist above its window size *)
C13_Witness ==
    /\ p.Closed /\ p.winsize = 1 /\ Count(p) = 3 /\ ret.err = Nil /\ ~reappended

----------------------------------------------------------------------------
(* Claims on the encoded text *)

(* where the buffer b has lines of the tag *)
TagIdx(b, tag) == {j \in 1 .. Len(b) : b[j].tag = tag}

Extinf(b) == TagIdx(b, "#EXTINF:")

(* the i-th smallest element of the set S of numbers *)
NthOf(S, i) == CHOOSE j \in S : Cardinality({k \in S : k < j}) = i - 1

(* the first line written for the i-th segment: the line after the URI     *)
(* line of the segment before                                              *)
BlockStart(b, i) == IF i = 1 THEN 1 ELSE NthOf(Extinf(b), i - 1) + 2

(* the key tags written for the i-th segment *)
KeyTags(b, i) ==
    {j \in TagIdx(b, "#EXT-X-KEY:") : BlockStart(b, i) <= j /\ j < NthOf(Extinf(b), i)}

(* the i-th segment has a Key, and is the first, or follows a segment       *)
(* without a Key or with a Key that differs in a field                     *)
KeyChanges(q, i) ==
    /\ SegList(q)[i].Key # <<>>
    /\ \/ i = 1
       \/ SegList(q)[i - 1].Key = <<>>
       \/ \E fld \in {"Method", "URI", "IV", "Keyformat", "Keyformatversions"} :
             SegList(q)[i - 1].Key[1][fld] # SegList(q)[i].Key[1][fld]

(* C14: Encode writes one key tag, that of the segment's Key, for the      *)
(* segment at position i when the segment has a Key and is the first       *)
(* retained, or follows a segment without a Key or with a Key that differs *)
(* in one of the five fields; it writes no key tag for it otherwise.       *)
C14_KeyTagWhenKeyChanges ==
    kind = "media" =>
        \A b \in Encode(p) :
            /\ Cardinality(Extinf(b)) = Count(p)
            /\ \A i \in 1 .. Count(p) :
                  IF KeyChanges(p, i)
                  THEN \E j \in KeyTags(b, i) :
                          /\ KeyTags(b, i) = {j}
                          /\ b[j].text = KeyText(SegList(p)[i].Key[1])
                  ELSE KeyTags(b, i) = {}

(* Encode has written one key tag for two segments with equal Keys *)
C14_Witness ==
    /\ kind = "media" /\ ret.buf # <<>> /\ Count(p) = 2
    /\ SegList(p)[1].Key # <<>> /\ SegList(p)[2].Key = SegList(p)[1].Key
    /\ Cardinality(TagIdx(ret.buf, "#EXT-X-KEY:")) = 1

(* the alternatives of the variants from the i-th on, in the order Encode *)
(* visits them                                                             *)
RECURSIVE AllAlternatives(_, _)
AllAlternatives(q, i) ==
    IF i > Len(q.Variants)
    THEN <<>>
    ELSE q.Variants[i].VariantParams.Alternatives \o AllAlternatives(q, i + 1)

Tuple(alt) == <<alt.Type, alt.GroupId, alt.Name, alt.Language>>

(* the elements of alts whose 4-tuple no earlier element has *)
RECURSIVE FirstSeen(_, _)
FirstSeen(alts, seen) ==
    IF alts = <<>>
    THEN <<>>
    ELSE IF Tuple(Head(alts)) \in seen
    THEN FirstSeen(Tail(alts), seen)
    ELSE <<Head(alts)>> \o FirstSeen(Tail(alts), seen \cup {Tuple(Head(alts))})

(* the lines of the buffer that are alternative-rendition tags *)
MediaTags(b) == SelectSeq(b, LAMBDA l : l.tag = "#EXT-X-MEDIA:")

(* C15 as stated: the alternative-rendition tags Encode writes for a       *)
(* master playlist are those of the alternatives of its variants whose     *)
(* 4-tuple (Type, GroupId, Name, Language) no earlier alternative has, in  *)
(* that order.                                                             *)
C15_AsStated ==
    kind = "master" =>
        \A b \in MasterEncode(m) :
            LET first == FirstSeen(AllAlternatives(m, 1), {})
            IN MediaTags(b) = [i \in 1 .. Len(first) |-> EncodeAlternative(first[i])]

(* a step in which Encode has returned *)
EncodeReturns == ret'.buf # <<>>

(* C16: a call of Encode, on a media or a master playlist, leaves every    *)
(* field of the playlist and of its segments as it was.                    *)
C16_EncodeChangesNothing == [][EncodeReturns => (p' = p /\ m' = m)]_vars

(* Encode has returned for a closed playlist of two segments with a Key *)
C16_Witness ==
    /\ kind = "media" /\ Len(ret.buf) > 0 /\ Count(p) = 2 /\ p.Closed
    /\ SegList(p)[2].Key # <<>>

(* C17 as stated: the playlist decides the buffer Encode returns *)
C17_AsStated ==
    /\ kind = "media" => \A a, b \in Encode(p) : a = b
    /\ kind = "master" => \A a, b \in MasterEncode(m) : a = b

(* the text of the segment-info tag of the segment *)
ExtinfText(q, seg) ==
    (IF q.durationAsInt THEN FormatInt(Ceil(seg.Duration) \div 2)
     ELSE FormatFloat3(seg.Duration))
    \o "," \o seg.Title

KeyRecords ==
    {[Method |-> k[1], URI |-> k[2], IV |-> k[3], Keyformat |-> k[4],
      Keyformatversions |-> k[5]] : k \in Keys}

(* the Key a key tag with the text stands for *)
ParseKey(text) == CHOOSE key \in KeyRecords : KeyText(key) = text

(* the Key in force at the i-th segment of the buffer: that of the last    *)
(* key tag before its segment-info tag, none without such a tag            *)
KeyInForce(b, i) ==
    LET before == {j \in TagIdx(b, "#EXT-X-KEY:") : j < NthOf(Extinf(b), i)}
    IN IF before = {}
       THEN <<>>
       ELSE <<ParseKey(b[CHOOSE j \in before : \A k \in before : k <= j].text)>>

(* C19 as stated: in the buffer of Encode the Key in force at every        *)
(* segment is the segment's own Key.                                       *)
C19_AsStated ==
    kind = "media" =>
        \A b \in Encode(p) : \A i \in 1 .. Count(p) : KeyInForce(b, i) = SegList(p)[i].Key

----------------------------------------------------------------------------
(* Claims on the live window *)

----------------------------------------------------------------------------
(* Claims on the setters of the last segment *)

(* the tail object keeps every field outside F *)
TailKeeps(F) ==
    \A f \in (DOMAIN NewMediaSegment) \ F : p'.heap[last(p)][f] = p.heap[last(p)][f]

(* each setter leaves the fields of the tail it does not address *)
OnlyAddressed ==
    /\ (\E k \in Keys : CallSetKey(k)) => TailKeeps({"Key"})
    /\ (\E u \in MapURIs : CallSetMap(u, 0, 0)) => TailKeeps({"Map"})
    /\ (\E r \in Ranges : CallSetRange(r[1], r[2])) => TailKeeps({"Limit", "Offset"})
    /\ (CallSetSCTE("cue", "id", 0) \/ \E c \in SCTEs : CallSetSCTE35(c))
          => TailKeeps({"SCTE"})
    /\ (\E l \in DaterangeLists : CallSetDateranges(l)) => TailKeeps({"Dateranges"})
    /\ CallSetDiscontinuity => TailKeeps({"Discontinuity"})
    /\ (\E t \in Times : CallSetProgramDateTime(t)) => TailKeeps({"ProgramDateTime"})
    /\ (\E tag \in Tags : CallSetCustomSegmentTag(tag)) => TailKeeps({"Custom"})

(* the list, the counters of the playlist and the SeqIds stay *)
ListKept ==
    /\ p'.Segments = p.Segments
    /\ p'.SeqNo = p.SeqNo
    /\ p'.TargetDuration = p.TargetDuration
    /\ \A i \in 1 .. Count(p) : SegList(p')[i].SeqId = SegList(p)[i].SeqId

(* a step of Append *)
PlainAppendStep == \E u \in URIs, d \in Durations, t \in Titles : CallAppend(u, d, t)

(* the values the setters write: none of them is on the segment seg *)
NoneSet(seg) ==
    /\ seg.Key = <<>> /\ seg.Map = <<>> /\ seg.Limit = 0 /\ seg.Offset = 0
    /\ seg.SCTE = <<>> /\ seg.Dateranges = <<>> /\ ~seg.Discontinuity
    /\ seg.ProgramDateTime = 0 /\ seg.Custom = {}

(* Append leaves the former tail as it was and its new tail has no value   *)
(* of the setters                                                          *)
AppendKeepsTail ==
    (PlainAppendStep /\ Count(p) >= 1) =>
        /\ SegList(p')[Count(p)] = SegList(p)[Count(p)]
        /\ NoneSet(SegList(p')[Count(p')])

(* C21 as stated: a successful setter of the last segment changes the      *)
(* addressed fields of the tail alone: count, order, SeqIds, SeqNo,        *)
(* TargetDuration and every field of the n-1 segments before the tail stay;*)
(* a later Append keeps the former tail and starts its new tail with none  *)
(* of the values.                                                          *)
C21_AsStated ==
    [][/\ (SegmentSetterStep /\ Count(p) >= 1 /\ ret'.err = Nil) =>
             /\ ListKept
             /\ OnlyAddressed
             /\ \A i \in 1 .. Count(p) - 1 : SegList(p')[i] = SegList(p)[i]
       /\ AppendKeepsTail]_vars

(* C21 amended: a successful setter of the last segment changes the        *)
(* addressed fields of the tail object alone: count, order, SeqIds, SeqNo, *)
(* TargetDuration and every field of every segment that is not the tail    *)
(* object stay (a tail object the list holds at an earlier position too    *)
(* shows the new value there); a later Append keeps the former tail and    *)
(* starts its new tail with none of the values.                            *)
C21_SettersChangeTailOnly ==
    [][/\ (SegmentSetterStep /\ Count(p) >= 1 /\ ret'.err = Nil) =>
             /\ ListKept
             /\ OnlyAddressed
             /\ \A a \in Addrs \ {last(p)} : p'.heap[a] = p.heap[a]
       /\ AppendKeepsTail]_vars

(* SetKey has succeeded on the second of two segments and Append has added *)
(* a third: the key is on the second alone                                 *)
C21_Witness ==
    /\ kind = "media" /\ Count(p) = 3 /\ ~reappended /\ ncalls = 4
    /\ SegList(p)[1].Key = <<>>
    /\ SegList(p)[2].Key # <<>>
    /\ NoneSet(SegList(p)[3])

----------------------------------------------------------------------------
(* Claims on the initialization maps in the encoded text *)

(* the map tags written for the i-th segment *)
MapTags(b, i) ==
    {j \in TagIdx(b, "#EXT-X-MAP:") : BlockStart(b, i) <= j /\ j < NthOf(Extinf(b), i)}

(* the i-th segment has a Map, and is the first, or follows a segment       *)
(* without a Map or with a Map that differs in a field                     *)
MapChanges(q, i) ==
    /\ SegList(q)[i].Map # <<>>
    /\ \/ i = 1
       \/ SegList(q)[i - 1].Map = <<>>
       \/ \E fld \in {"URI", "Limit", "Offset"} :
             SegList(q)[i - 1].Map[1][fld] # SegList(q)[i].Map[1][fld]

(* C22: Encode writes one map tag, that of the segment's Map, for the      *)
(* segment at position i when the segment has a Map and is the first       *)
(* retained, or follows a segment without a Map or with a Map that differs *)
(* by value; it writes no map tag for it otherwise.  The first retained    *)
(* segment is judged anew in every call: a head that has a Map gets its    *)
(* tag, whatever the segment removed before it had.                        *)
C22_MapTagWhenMapChanges ==
    kind = "media" =>
        \A b \in Encode(p) :
            /\ Cardinality(Extinf(b)) = Count(p)
            /\ \A i \in 1 .. Count(p) :
                  IF MapChanges(p, i)
                  THEN \E j \in MapTags(b, i) :
                          /\ MapTags(b, i) = {j}
                          /\ b[j].text = EncodeMap(SegList(p)[i], <<>>)[1].text
                  ELSE MapTags(b, i) = {}

(* Encode has written the map tag of the head that a Remove has left: two  *)
(* segments were appended and given a map, the first was removed           *)
C22_Witness ==
    /\ kind = "media" /\ ret.buf # <<>> /\ ncalls = 5
    /\ p.SeqNo = 1 /\ Count(p) = 1 /\ SegList(p)[1].Map # <<>>
    /\ Cardinality(TagIdx(ret.buf, "#EXT-X-MAP:")) = 1

----------------------------------------------------------------------------
(* Claims on the window in the encoded text *)

(* C23 as stated: in every reachable state, also when Append has grown the *)
(* list beyond the window size or SetWinSize has shrunk the window, the    *)
(* text Encode returns has at most winsize segment entries.                *)
C23_AsStated ==
    kind = "media" => \A b \in Encode(p) : Cardinality(Extinf(b)) <= p.winsize

----------------------------------------------------------------------------
(* Claims on the version and the features of the retained segments *)

(* the version the segment seg asks for *)
SegmentRequires(seg) ==
    IF \/ seg.Map # <<>>
       \/ seg.Key # <<>> /\ (seg.Key[1].Keyformat # "" \/ seg.Key[1].Keyformatversions # "")
    THEN 5
    ELSE IF seg.Limit > 0 THEN 4 ELSE 0

(* C24 as stated: in every state reached by Append, AppendSegment with a   *)
(* segment the caller has built, Remove, Slide, Close and the setters,     *)
(* the version is at least 5 when a retained segment has a Map or a Key    *)
(* with a key-format or key-format-versions, and at least 4 when a         *)
(* retained segment has a positive byte-range length.                      *)
C24_AsStated ==
    kind = "media" => \A i \in 1 .. Count(p) : p.ver >= SegmentRequires(SegList(p)[i])

====
